---- MODULE Spec2Model ----
(***************************************************************************)
(* A model of io-chain: the Tee broadcast stage (src/src/tee.rs), the      *)
(* Lambda copy stage (src/src/lambda.rs), the pipe accessors of the three  *)
(* running stages and the ChildExit failure aggregation                    *)
(* (src/src/process.rs).                                                   *)
(*                                                                         *)
(* Every subsystem has its own specification over the same variables; the  *)
(* variables of the other subsystems stay at their idle values.            *)
(***************************************************************************)
EXTENDS Integers, Sequences, FiniteSets, TLC

\* ------------------------------------------------------------------------
\* Bounds
\* ------------------------------------------------------------------------
MaxSinks == 2        \* sinks registered through add_output before start
MaxInput == 3        \* length of the Tee's input stream
MaxBuf == 2          \* buffer_size given to Tee::new
MaxSrc == 3          \* length of the Lambda's source stream
MaxCopyBuf == 2      \* bytes io::copy reads at once
MaxCalls == 3        \* calls of each pipe accessor
MaxStatus == 2       \* largest exit status of the child
MaxInterrupts == 1   \* reads and writes of the Lambda that fail with Interrupted

\* ------------------------------------------------------------------------
\* State
\* ------------------------------------------------------------------------
\* State of Tee (tee.rs)
VARIABLES
    stream,      \* the bytes the input will deliver before end-of-data
    pos,         \* bytes of stream already taken by in_rx.read
    buffer,      \* Tee.buffer: the shared Vec<u8>
    lockW,       \* the reader thread holds buffer.write()
    lockR,       \* delivery threads holding buffer.read()
    cursor,      \* read_loop's cursor
    channels,    \* Tee.channels: the senders, by sink id
    threads,     \* Tee.threads / RunningTee.threads
    sendIdx,     \* position of the reader's for loop over channels
    dead,        \* indexes whose send failed in this round
    notify,      \* the counter of Tee.notify
    rpc,         \* where the Tee and its reader thread are
    spc,         \* where each delivery thread is
    res,         \* each delivery thread's local res
    threadRes,   \* what each finished thread returned
    wr,          \* the bytes each sink's writer has accepted
    teeIn,       \* RunningTee.input_pipe
    teeOut,      \* RunningTee.output_pipe
    waitRes,     \* the Vec returned by RunningTee::wait, <<>> before
    chunks,      \* history: the chunks the reader has published
    got,         \* history: the chunks each delivery thread wrote completely
    handed,      \* history: the round of the chunk last handed to each sink
    wrote,       \* history: the round each completely written chunk was handed in
    bufSize,     \* history: the buffer_size given to Tee::new
    addCalls,    \* history: number of add_output calls made before start
    startOut,    \* history: start's output was "Null", or "NotNull"
    acks         \* history: how often each delivery thread called notify()

teeVars == <<stream, pos, buffer, lockW, lockR, cursor, channels, threads,
             sendIdx, dead, notify, rpc, spc, res, threadRes, wr, teeIn,
             teeOut, waitRes, chunks, got, handed, wrote, bufSize, addCalls,
             startOut, acks>>

\* State of Lambda (lambda.rs)
VARIABLES
    lsrc,        \* the bytes the source will deliver before end-of-data
    lpos,        \* bytes of lsrc already read by io::copy
    linput,      \* the ReadStream given to start
    loutput,     \* the WriteStream given to start
    lpc,         \* where the Lambda and its copy thread are
    lchunk,      \* the bytes of io::copy's buffer that are being written
    loff,        \* how many bytes of lchunk write_all has got accepted
    copied,      \* io::copy's running total
    dstGot,      \* the bytes dst has accepted
    handlerArgs, \* the buffers the handler was invoked with, in order
    lres,        \* what the copy thread returned
    lamIn,       \* RunningLambda.input_pipe
    lamOut,      \* RunningLambda.output_pipe
    lamWait,     \* the value returned by RunningLambda::wait
    okWrites,    \* history: number of dst.write calls that returned Ok
    dstRefused,  \* history: dst returned Err or Ok(0) for some write
    srcFailed,   \* history: a read of the source failed
    failures,    \* history: the errors the source's reads and dst's writes
                 \* returned, in order
    downPos,     \* bytes the reader of the output pipe has read
    downEof,     \* the reader of the output pipe has seen end-of-data
    inTx,        \* the input pipe's write end once it has left
                 \* RunningLambda: "caller" (taken), "closed" or "none"
    lwaiting     \* RunningLambda::wait has been called

lamVars == <<lsrc, lpos, linput, loutput, lpc, lchunk, loff, copied, dstGot,
             handlerArgs, lres, lamIn, lamOut, lamWait, okWrites, dstRefused,
             srcFailed, failures, downPos, downEof, inTx, lwaiting>>

\* State of the pipe accessors
VARIABLES
    stage,       \* which Filter was started: "Lambda", "Child" or "Tee"
    pinput,      \* the ReadStream given to start
    poutput,     \* the WriteStream given to start
    ppc,         \* "new", "running" or "startfailed"
    input_pipe,  \* the Running stage's input handle (child.stdin for a child)
    output_pipe, \* the Running stage's output handle (child.stdout)
    inCalls,     \* what each call of input_pipe() returned, in order
    outCalls     \* what each call of output_pipe() returned, in order

pipeVars == <<stage, pinput, poutput, ppc, input_pipe, output_pipe, inCalls,
              outCalls>>

\* State of ChildExit::combine
VARIABLES
    exit,        \* the ChildExit: child, read_thread, write_thread
    cpc,         \* "waited", "combined" or "rendered"
    combined,    \* what combine returned: <<>> for Ok(()), <<e>> for Err(e)
    text         \* what Display wrote for the ChildExitError

cxVars == <<exit, cpc, combined, text>>

\* State of ChildProcess and RunningChild (process.rs)
VARIABLES
    chpc,        \* "new", "running", "startfailed" or "waited"
    cinput,      \* the ReadStream given to start
    coutput,     \* the WriteStream given to start
    cstart,      \* what start returned: Ok or the io::Error
    bridge,      \* where the bridging threads t1 and t2 are, and how they ended
    handles,     \* RunningChild.threads: the slot holds a JoinHandle
    proc,        \* the child process: "none", "running" or "exited"
    cstatus,     \* what child.wait() answers once the child has exited
    cexit        \* the ChildExit returned by RunningChild::wait

childVars == <<chpc, cinput, coutput, cstart, bridge, handles, proc,
               cstatus, cexit>>

vars == <<teeVars, lamVars, pipeVars, cxVars, childVars>>

\* What the steps of one subsystem leave alone.
notTee == <<lamVars, pipeVars, cxVars, childVars>>
notLambda == <<teeVars, pipeVars, cxVars, childVars>>
notPipes == <<teeVars, lamVars, cxVars, childVars>>
notCombine == <<teeVars, lamVars, pipeVars, childVars>>
notChild == <<teeVars, lamVars, pipeVars, cxVars>>

\* ------------------------------------------------------------------------
\* Common values
\* ------------------------------------------------------------------------
None == "None"
Ok == "Ok"

\* The four variants of ReadStream and WriteStream (traits.rs).
ReadStream == {"Fd", "Rust", "PipeRequested", "Null"}
WriteStream == {"Fd", "Rust", "PipeRequested", "Null"}

\* misc.rs: the io::Error made from ThreadPanicked.
ThreadPanicked == "copy thread panicked"

\* How a thread that panicked ended: its join() is Err.
Panicked == "panicked"

Min(a, b) == IF a < b THEN a ELSE b

Range(s) == {s[i] : i \in 1..Len(s)}

IsPrefix(s, t) == Len(s) <= Len(t) /\ s = SubSeq(t, 1, Len(s))

RECURSIVE Flatten(_)
Flatten(ss) == IF ss = <<>> THEN <<>> ELSE Head(ss) \o Flatten(Tail(ss))

\* The bytes of a stream of the given length: byte i is i, so that every
\* position is recognisable; 0 is the fill byte of a fresh buffer.  The code
\* never branches on a byte's value.
Stream(len) == [i \in 1..len |-> i]

\* ------------------------------------------------------------------------
\* misc.rs: endpoint resolution.  A result is the stage's own end and the
\* other half of a freshly created pipe, if one was requested.
\* ------------------------------------------------------------------------
read_stream(input) ==
    [rx |-> input, tx |-> IF input = "PipeRequested" THEN "in_tx" ELSE None]

write_stream(output) ==
    [tx |-> output, rx |-> IF output = "PipeRequested" THEN "out_rx" ELSE None]

\* ------------------------------------------------------------------------
\* Tee (tee.rs)
\* ------------------------------------------------------------------------
SinkIds == 1..(MaxSinks + 1)

\* The id of the reader thread among the thread handles.
Reader == 0

ReadErr == "read failed"
WriteErr(s) == "write failed in sink " \o ToString(s)

\* Tee::new: vec![0; buffer_size], no thread, no channel, counter 0.
TeeNew(size) ==
    /\ buffer = [i \in 1..size |-> 0]
    /\ bufSize = size
    /\ threads = <<>>
    /\ channels = <<>>
    /\ notify = 0
    /\ lockW = FALSE
    /\ lockR = {}
    /\ cursor = 0
    /\ sendIdx = 0
    /\ dead = <<>>
    /\ rpc = "new"
    /\ spc = [s \in SinkIds |-> "none"]
    /\ res = [s \in SinkIds |-> None]
    /\ threadRes = [t \in {Reader} \cup SinkIds |-> None]
    /\ wr = [s \in SinkIds |-> <<>>]
    /\ teeIn = None
    /\ teeOut = None
    /\ waitRes = <<>>
    /\ chunks = <<>>
    /\ got = [s \in SinkIds |-> <<>>]
    /\ handed = [s \in SinkIds |-> 0]
    /\ wrote = [s \in SinkIds |-> <<>>]
    /\ pos = 0
    /\ addCalls = 0
    /\ startOut = None
    /\ acks = [s \in SinkIds |-> 0]

TeeInit ==
    /\ \E len \in 0..MaxInput : stream = Stream(len)
    /\ \E size \in 0..MaxBuf : TeeNew(size)

\* The next free sink id: sinks are numbered in registration order.
NextSink == Len(channels) + 1

\* add_output: a rendezvous channel, its sender pushed on channels, a
\* delivery thread spawned (it blocks in rx.recv) and pushed on threads.
add_output(ch, th) ==
    [channels |-> Append(ch, Len(ch) + 1), threads |-> Append(th, Len(ch) + 1)]

AddOutput ==
    /\ rpc = "new"
    /\ Len(channels) < MaxSinks
    /\ LET a == add_output(channels, threads) IN
         /\ channels' = a.channels
         /\ threads' = a.threads
         /\ spc' = [spc EXCEPT ![NextSink] = "recv"]
    /\ addCalls' = addCalls + 1
    /\ UNCHANGED notTee
    /\ UNCHANGED <<startOut, acks>>
    /\ UNCHANGED <<stream, pos, buffer, lockW, lockR, cursor, sendIdx, dead,
                   notify, rpc, res, threadRes, wr, teeIn, teeOut, waitRes,
                   chunks, got, handed, wrote, bufSize>>

\* Tee::start: in_tx of read_stream, and out_rx of write_stream unless the
\* output is Null.
TeePipes(input, output) ==
    [input_pipe |-> read_stream(input).tx,
     output_pipe |-> IF output = "Null" THEN None ELSE write_stream(output).rx]

\* threads.insert(0, t): the reader thread is joined first.
InsertReaderLast(th) == Append(th, Reader)
InsertReader(th) == <<Reader>> \o th

\* Tee::start with both endpoints resolved.  A Null input is io::empty().
TeeStart ==
    /\ rpc = "new"
    /\ \E input \in ReadStream, output \in WriteStream :
         LET a == IF output = "Null"
                    THEN [channels |-> channels, threads |-> threads]
                    ELSE add_output(channels, threads)
         IN  /\ channels' = a.channels
             /\ threads' = InsertReader(a.threads)
             /\ spc' = IF output = "Null" THEN spc
                       ELSE [spc EXCEPT ![NextSink] = "recv"]
             /\ teeIn' = TeePipes(input, output).input_pipe
             /\ teeOut' = TeePipes(input, output).output_pipe
             /\ stream' = IF input = "Null" THEN <<>> ELSE stream
             /\ startOut' = IF output = "Null" THEN "Null" ELSE "NotNull"
    /\ rpc' = "lock"
    /\ UNCHANGED notTee
    /\ UNCHANGED <<addCalls, acks>>
    /\ UNCHANGED <<pos, buffer, lockW, lockR, cursor, sendIdx, dead, notify,
                   res, threadRes, wr, waitRes, chunks, got, handed, wrote,
                   bufSize>>

\* Tee::start when os_pipe::pipe() fails in read_stream or write_stream: the
\* Tee is dropped with its senders, no reader thread is spawned.
TeeStartFails ==
    /\ rpc = "new"
    /\ rpc' = "startfailed"
    /\ channels' = <<>>
    /\ UNCHANGED notTee
    /\ UNCHANGED <<addCalls, startOut, acks>>
    /\ UNCHANGED <<stream, pos, buffer, lockW, lockR, cursor, threads,
                   sendIdx, dead, notify, spc, res, threadRes, wr, teeIn,
                   teeOut, waitRes, chunks, got, handed, wrote, bufSize>>

\* The reader thread ends: its closure drops the write guard and the senders.
ReaderReturns(r) ==
    /\ rpc' = "done"
    /\ threadRes' = [threadRes EXCEPT ![Reader] = r]
    /\ lockW' = FALSE
    /\ channels' = <<>>

\* let mut buf_write = buffer.write();
ReaderLock ==
    /\ rpc = "lock"
    /\ lockR = {}
    /\ lockW' = TRUE
    /\ cursor' = 0
    /\ rpc' = "fill"
    /\ UNCHANGED notTee
    /\ UNCHANGED <<addCalls, startOut, acks>>
    /\ UNCHANGED <<stream, pos, buffer, lockR, channels, threads, sendIdx,
                   dead, notify, spc, res, threadRes, wr, teeIn, teeOut,
                   waitRes, chunks, got, handed, wrote, bufSize>>

\* The bytes of buf after a read that stored k bytes of the stream at cursor.
Fill(buf, cur, k, str, p) ==
    [i \in 1..Len(buf) |->
        IF i > cur /\ i <= cur + k THEN str[p + (i - cur)] ELSE buf[i]]

\* read_loop leaves its loop when the read returned 0 or the buffer is full.
ReadLoopDoneWhenFull(n, cur, len) == cur = len
ReadLoopDone(n, cur, len) == n = 0 \/ cur = len

\* One f.read(&mut buf[cursor..]) of read_loop that succeeds: it stores k
\* bytes, k >= 1 while the stream has bytes and the slice has room, else 0.
ReaderRead ==
    /\ rpc = "fill"
    /\ \E k \in 0..Min(Len(buffer) - cursor, Len(stream) - pos) :
         /\ k = 0 => (pos = Len(stream) \/ cursor = Len(buffer))
         /\ buffer' = Fill(buffer, cursor, k, stream, pos)
         /\ pos' = pos + k
         /\ cursor' = cursor + k
         /\ rpc' = IF ReadLoopDone(k, cursor + k, Len(buffer))
                     THEN "filled" ELSE "fill"
    /\ UNCHANGED notTee
    /\ UNCHANGED <<addCalls, startOut, acks>>
    /\ UNCHANGED <<stream, lockW, lockR, channels, threads, sendIdx, dead,
                   notify, spc, res, threadRes, wr, teeIn, teeOut, waitRes,
                   chunks, got, handed, wrote, bufSize>>

\* f.read fails: read_loop's ? and the reader's ? end the reader thread.
ReaderReadFails ==
    /\ rpc = "fill"
    /\ stream # <<>>
    /\ ReaderReturns(ReadErr)
    /\ UNCHANGED notTee
    /\ UNCHANGED <<addCalls, startOut, acks>>
    /\ UNCHANGED <<stream, pos, buffer, lockR, cursor, threads, sendIdx,
                   dead, notify, spc, res, wr, teeIn, teeOut, waitRes,
                   chunks, got, handed, wrote, bufSize>>

\* buf_write.truncate(n)
truncateNoop(buf, n) == buf
truncate(buf, n) == SubSeq(buf, 1, n)

\* n == 0: break, the thread returns Ok(()).
ReaderBreak ==
    /\ rpc = "filled"
    /\ cursor = 0
    /\ ReaderReturns(Ok)
    /\ UNCHANGED notTee
    /\ UNCHANGED <<addCalls, startOut, acks>>
    /\ UNCHANGED <<stream, pos, buffer, lockR, cursor, threads, sendIdx,
                   dead, notify, spc, res, wr, teeIn, teeOut, waitRes,
                   chunks, got, handed, wrote, bufSize>>

\* truncate(n); drop(buf_write); the for loop over channels starts.
ReaderPublish ==
    /\ rpc = "filled"
    /\ cursor # 0
    /\ buffer' = truncate(buffer, cursor)
    /\ lockW' = FALSE
    /\ chunks' = Append(chunks, buffer')
    /\ sendIdx' = 1
    /\ dead' = <<>>
    /\ rpc' = "send"
    /\ UNCHANGED notTee
    /\ UNCHANGED <<addCalls, startOut, acks>>
    /\ UNCHANGED <<stream, pos, lockR, cursor, channels, threads, notify,
                   spc, res, threadRes, wr, teeIn, teeOut, waitRes, got,
                   handed, wrote, bufSize>>

\* tx.send(Arc::clone(&buffer)) on a capacity-0 channel: it completes when
\* the delivery thread is in rx.recv().
ReaderSend ==
    /\ rpc = "send"
    /\ sendIdx <= Len(channels)
    /\ spc[channels[sendIdx]] = "recv"
    /\ spc' = [spc EXCEPT ![channels[sendIdx]] = "gotbuf"]
    /\ handed' = [handed EXCEPT ![channels[sendIdx]] = Len(chunks)]
    /\ sendIdx' = sendIdx + 1
    /\ UNCHANGED notTee
    /\ UNCHANGED <<addCalls, startOut, acks>>
    /\ UNCHANGED <<stream, pos, buffer, lockW, lockR, cursor, channels,
                   threads, dead, notify, rpc, res, threadRes, wr, teeIn,
                   teeOut, waitRes, chunks, got, wrote, bufSize>>

\* dead.push(i)
PushNothing(d, i) == d
Push(d, i) == Append(d, i)

\* tx.send fails because the delivery thread has dropped rx: dead.push(i).
ReaderSendFails ==
    /\ rpc = "send"
    /\ sendIdx <= Len(channels)
    /\ spc[channels[sendIdx]] = "exited"
    /\ dead' = Push(dead, sendIdx)
    /\ sendIdx' = sendIdx + 1
    /\ UNCHANGED notTee
    /\ UNCHANGED <<addCalls, startOut, acks>>
    /\ UNCHANGED <<stream, pos, buffer, lockW, lockR, cursor, channels,
                   threads, notify, rpc, spc, res, threadRes, wr, teeIn,
                   teeOut, waitRes, chunks, got, handed, wrote, bufSize>>

\* Vec::remove(i)
Remove(ch, i) == SubSeq(ch, 1, i - 1) \o SubSeq(ch, i + 1, Len(ch))

\* for i in dead.iter().rev() { channels.remove(*i); }
RemoveDeadKeep(ch, d) == ch
RECURSIVE RemoveDead(_, _)
RemoveDead(ch, d) ==
    IF d = <<>> THEN ch
    ELSE RemoveDead(Remove(ch, d[Len(d)]), SubSeq(d, 1, Len(d) - 1))

ReaderRemoveDead ==
    /\ rpc = "send"
    /\ sendIdx > Len(channels)
    /\ channels' = RemoveDead(channels, dead)
    /\ rpc' = "barrier"
    /\ UNCHANGED notTee
    /\ UNCHANGED <<addCalls, startOut, acks>>
    /\ UNCHANGED <<stream, pos, buffer, lockW, lockR, cursor, threads,
                   sendIdx, dead, notify, spc, res, threadRes, wr, teeIn,
                   teeOut, waitRes, chunks, got, handed, wrote, bufSize>>

\* while *n < channels.len() { cv.wait(&mut n); }
BarrierOffByOne(n, live) == ~(n < live - 1)
BarrierOpen(n, live) == ~(n < live)

\* The barrier opens; *n = 0; the loop starts over.
ReaderBarrier ==
    /\ rpc = "barrier"
    /\ BarrierOpen(notify, Len(channels))
    /\ notify' = 0
    /\ rpc' = "lock"
    /\ UNCHANGED notTee
    /\ UNCHANGED <<addCalls, startOut, acks>>
    /\ UNCHANGED <<stream, pos, buffer, lockW, lockR, cursor, channels,
                   threads, sendIdx, dead, spc, res, threadRes, wr, teeIn,
                   teeOut, waitRes, chunks, got, handed, wrote, bufSize>>

\* rx.recv() fails once the sender is dropped: the thread returns Ok(()).
SinkRecvClosed(s) ==
    /\ spc[s] = "recv"
    /\ s \notin Range(channels)
    /\ spc' = [spc EXCEPT ![s] = "exited"]
    /\ threadRes' = [threadRes EXCEPT ![s] = Ok]
    /\ UNCHANGED notTee
    /\ UNCHANGED <<addCalls, startOut, acks>>
    /\ UNCHANGED <<stream, pos, buffer, lockW, lockR, cursor, channels,
                   threads, sendIdx, dead, notify, rpc, res, wr, teeIn,
                   teeOut, waitRes, chunks, got, handed, wrote, bufSize>>

\* buf.read(): the read guard of w.write_all(&buf.read()).
SinkLock(s) ==
    /\ spc[s] = "gotbuf"
    /\ ~lockW
    /\ lockR' = lockR \cup {s}
    /\ spc' = [spc EXCEPT ![s] = "writing"]
    /\ UNCHANGED notTee
    /\ UNCHANGED <<addCalls, startOut, acks>>
    /\ UNCHANGED <<stream, pos, buffer, lockW, cursor, channels, threads,
                   sendIdx, dead, notify, rpc, res, threadRes, wr, teeIn,
                   teeOut, waitRes, chunks, got, handed, wrote, bufSize>>

\* w.write_all succeeds: the writer has accepted the whole buffer; the read
\* guard is dropped at the end of the statement.
SinkWrite(s) ==
    /\ spc[s] = "writing"
    /\ wr' = [wr EXCEPT ![s] = @ \o buffer]
    /\ got' = [got EXCEPT ![s] = Append(@, buffer)]
    /\ wrote' = [wrote EXCEPT ![s] = Append(@, handed[s])]
    /\ res' = [res EXCEPT ![s] = Ok]
    /\ lockR' = lockR \ {s}
    /\ spc' = [spc EXCEPT ![s] = "notify"]
    /\ UNCHANGED notTee
    /\ UNCHANGED <<addCalls, startOut, acks>>
    /\ UNCHANGED <<stream, pos, buffer, lockW, cursor, channels, threads,
                   sendIdx, dead, notify, rpc, threadRes, teeIn, teeOut,
                   waitRes, chunks, handed, bufSize>>

\* w.write_all fails after the writer accepted k bytes of the buffer.
SinkWriteFails(s) ==
    /\ spc[s] = "writing"
    /\ \E k \in 0..(Len(buffer) - 1) :
         wr' = [wr EXCEPT ![s] = @ \o SubSeq(buffer, 1, k)]
    /\ res' = [res EXCEPT ![s] = WriteErr(s)]
    /\ lockR' = lockR \ {s}
    /\ spc' = [spc EXCEPT ![s] = "notify"]
    /\ UNCHANGED notTee
    /\ UNCHANGED <<addCalls, startOut, acks>>
    /\ UNCHANGED <<stream, pos, buffer, lockW, cursor, channels, threads,
                   sendIdx, dead, notify, rpc, threadRes, teeIn, teeOut,
                   waitRes, chunks, got, handed, wrote, bufSize>>

\* The notify closure: *n += 1; cv.notify_all();
IncrementTwice(n) == n + 2
Increment(n) == n + 1

\* notify()
SinkNotify(s) ==
    /\ spc[s] = "notify"
    /\ notify' = Increment(notify)
    /\ acks' = [acks EXCEPT ![s] = @ + 1]
    /\ spc' = [spc EXCEPT ![s] = "check"]
    /\ UNCHANGED notTee
    /\ UNCHANGED <<addCalls, startOut>>
    /\ UNCHANGED <<stream, pos, buffer, lockW, lockR, cursor, channels,
                   threads, sendIdx, dead, rpc, res, threadRes, wr, teeIn,
                   teeOut, waitRes, chunks, got, handed, wrote, bufSize>>

\* res?; a failure ends the thread (rx is dropped), success loops to recv.
SinkCheck(s) ==
    /\ spc[s] = "check"
    /\ IF res[s] = Ok
         THEN /\ spc' = [spc EXCEPT ![s] = "recv"]
              /\ UNCHANGED threadRes
         ELSE /\ spc' = [spc EXCEPT ![s] = "exited"]
              /\ threadRes' = [threadRes EXCEPT ![s] = res[s]]
    /\ UNCHANGED notTee
    /\ UNCHANGED <<addCalls, startOut, acks>>
    /\ UNCHANGED <<stream, pos, buffer, lockW, lockR, cursor, channels,
                   threads, sendIdx, dead, notify, rpc, res, wr, teeIn,
                   teeOut, waitRes, chunks, got, handed, wrote, bufSize>>

\* t.join().unwrap_or(Err(ThreadPanicked::ioerr())): r is how the thread
\* ended.
JoinDiscard(r) == Ok
JoinOrPanicked(r) == IF r = Panicked THEN ThreadPanicked ELSE r

\* RunningTee::wait: joins the threads in order and collects what they
\* returned; it returns once every thread has ended.
TeeWait ==
    /\ rpc = "done"
    /\ waitRes = <<>>
    /\ \A i \in 1..Len(threads) : threadRes[threads[i]] # None
    /\ waitRes' = [i \in 1..Len(threads) |->
                     JoinOrPanicked(threadRes[threads[i]])]
    /\ UNCHANGED notTee
    /\ UNCHANGED <<addCalls, startOut, acks>>
    /\ UNCHANGED <<stream, pos, buffer, lockW, lockR, cursor, channels,
                   threads, sendIdx, dead, notify, rpc, spc, res, threadRes,
                   wr, teeIn, teeOut, chunks, got, handed, wrote, bufSize>>

\* The writer panics in w.write_all after accepting k bytes: the thread
\* unwinds, which drops the read guard and rx; notify() is not reached.
SinkPanics(s) ==
    /\ spc[s] = "writing"
    /\ \E k \in 0..Len(buffer) :
         wr' = [wr EXCEPT ![s] = @ \o SubSeq(buffer, 1, k)]
    /\ lockR' = lockR \ {s}
    /\ spc' = [spc EXCEPT ![s] = "exited"]
    /\ threadRes' = [threadRes EXCEPT ![s] = Panicked]
    /\ UNCHANGED notTee
    /\ UNCHANGED <<addCalls, startOut, acks>>
    /\ UNCHANGED <<stream, pos, buffer, lockW, cursor, channels, threads,
                   sendIdx, dead, notify, rpc, res, teeIn, teeOut, waitRes,
                   chunks, got, handed, wrote, bufSize>>

SinkStep ==
    \E s \in SinkIds :
        \/ SinkRecvClosed(s)
        \/ SinkLock(s)
        \/ SinkWrite(s)
        \/ SinkWriteFails(s)
        \/ SinkNotify(s)
        \/ SinkCheck(s)

TeeNext ==
    \/ AddOutput
    \/ TeeStart
    \/ TeeStartFails
    \/ ReaderLock
    \/ ReaderRead
    \/ ReaderReadFails
    \/ ReaderBreak
    \/ ReaderPublish
    \/ ReaderSend
    \/ ReaderSendFails
    \/ ReaderRemoveDead
    \/ ReaderBarrier
    \/ SinkStep
    \/ TeeWait

\* ------------------------------------------------------------------------
\* Lambda (lambda.rs)
\* ------------------------------------------------------------------------
\* io::Result<u64> and io::Result<usize>
OkN(n) == [ok |-> TRUE, n |-> n, err |-> ""]
ErrE(e) == [ok |-> FALSE, n |-> 0, err |-> e]

\* The value of a result slot that has not been filled yet.
NotFinished == ErrE("not finished")

WriteZero == "failed to write whole buffer"
LambdaWriteErr == "write failed"
LambdaReadErr == "read failed"
\* ErrorKind::Interrupted, which io::copy and write_all answer by retrying.
Interrupted == "interrupted"

RECURSIVE Count(_, _)
Count(seq, x) ==
    IF seq = <<>> THEN 0
    ELSE (IF Head(seq) = x THEN 1 ELSE 0) + Count(Tail(seq), x)

LambdaInit ==
    /\ \E len \in 0..MaxSrc : lsrc = Stream(len)
    /\ lpos = 0
    /\ linput = None
    /\ loutput = None
    /\ lpc = "new"
    /\ lchunk = <<>>
    /\ loff = 0
    /\ copied = 0
    /\ dstGot = <<>>
    /\ handlerArgs = <<>>
    /\ lres = NotFinished
    /\ lamIn = None
    /\ lamOut = None
    /\ lamWait = NotFinished
    /\ okWrites = 0
    /\ dstRefused = FALSE
    /\ srcFailed = FALSE
    /\ failures = <<>>
    /\ downPos = 0
    /\ downEof = FALSE
    /\ inTx = "none"
    /\ lwaiting = FALSE

\* Lambda::start: the pipes it creates and the handles it keeps for the
\* caller in RunningLambda.
LambdaPipes(input, output) ==
    [input_pipe |-> IF input = "PipeRequested" THEN "in_tx" ELSE None,
     output_pipe |-> IF output = "PipeRequested" THEN "out_rx" ELSE None]

\* Lambda::start succeeds: the copy thread is spawned.
LambdaStart ==
    /\ lpc = "new"
    /\ \E input \in ReadStream, output \in WriteStream :
         /\ linput' = input
         /\ loutput' = output
         /\ lamIn' = LambdaPipes(input, output).input_pipe
         /\ lamOut' = LambdaPipes(input, output).output_pipe
    /\ lpc' = "spawned"
    /\ UNCHANGED notLambda
    /\ UNCHANGED <<inTx, lwaiting>>
    /\ UNCHANGED <<failures, downPos, downEof>>
    /\ UNCHANGED <<lsrc, lpos, lchunk, loff, copied, dstGot, handlerArgs,
                   lres, lamWait, okWrites, dstRefused, srcFailed>>

\* Lambda::start when os_pipe::pipe() fails: the ? returns before the spawn.
LambdaStartFails ==
    /\ lpc = "new"
    /\ \E input \in ReadStream, output \in WriteStream :
         /\ "PipeRequested" \in {input, output}
         /\ linput' = input
         /\ loutput' = output
    /\ lpc' = "startfailed"
    /\ UNCHANGED notLambda
    /\ UNCHANGED <<inTx, lwaiting>>
    /\ UNCHANGED <<failures, downPos, downEof>>
    /\ UNCHANGED <<lsrc, lpos, lchunk, loff, copied, dstGot, handlerArgs,
                   lres, lamIn, lamOut, lamWait, okWrites, dstRefused,
                   srcFailed>>

\* The thread's match on input: ReadStream::Null returns Ok(0) at once.
LambdaMatchInput ==
    /\ lpc = "spawned"
    /\ IF linput = "Null"
         THEN /\ lpc' = "done"
              /\ lres' = OkN(0)
         ELSE /\ lpc' = "read"
              /\ UNCHANGED lres
    /\ UNCHANGED notLambda
    /\ UNCHANGED <<inTx, lwaiting>>
    /\ UNCHANGED <<failures, downPos, downEof>>
    /\ UNCHANGED <<lsrc, lpos, linput, loutput, lchunk, loff, copied, dstGot,
                   handlerArgs, lamIn, lamOut, lamWait, okWrites, dstRefused,
                   srcFailed>>

\* The write end of the input pipe is open: RunningLambda or the caller
\* holds it.
InputWriteEndOpen == lamIn = "in_tx" \/ inTx = "caller"

\* A read of k bytes from the read end of the input pipe can return: data
\* once the caller has the write end to write it, end-of-data (k = 0) only
\* when no write end is open. Any other input is not concerned.
PipeReadable(k) ==
    linput = "PipeRequested" =>
        IF k = 0 THEN ~InputWriteEndOpen ELSE inTx \in {"caller", "closed"}

\* io::copy reads the next chunk: k >= 1 bytes while the source has bytes,
\* 0 at end-of-data, on which io::copy returns its total.
LambdaRead ==
    /\ lpc = "read"
    /\ \E k \in 0..Min(MaxCopyBuf, Len(lsrc) - lpos) :
         /\ k = 0 => lpos = Len(lsrc)
         /\ PipeReadable(k)
         /\ lchunk' = SubSeq(lsrc, lpos + 1, lpos + k)
         /\ lpos' = lpos + k
         /\ loff' = 0
         /\ IF k = 0
              THEN /\ lpc' = "done"
                   /\ lres' = OkN(copied)
              ELSE /\ lpc' = "write"
                   /\ UNCHANGED lres
    /\ UNCHANGED notLambda
    /\ UNCHANGED <<inTx, lwaiting>>
    /\ UNCHANGED <<failures, downPos, downEof>>
    /\ UNCHANGED <<lsrc, linput, loutput, copied, dstGot, handlerArgs, lamIn,
                   lamOut, lamWait, okWrites, dstRefused, srcFailed>>

\* The read fails: io::copy returns the failure.
LambdaReadFails ==
    /\ lpc = "read"
    /\ lpc' = "done"
    /\ lres' = ErrE(LambdaReadErr)
    /\ srcFailed' = TRUE
    /\ failures' = Append(failures, LambdaReadErr)
    /\ UNCHANGED notLambda
    /\ UNCHANGED <<inTx, lwaiting>>
    /\ UNCHANGED <<downPos, downEof>>
    /\ UNCHANGED <<lsrc, lpos, linput, loutput, lchunk, loff, copied, dstGot,
                   handlerArgs, lamIn, lamOut, lamWait, okWrites, dstRefused>>

\* The read fails with Interrupted: io::copy reads again.
LambdaReadInterrupted ==
    /\ lpc = "read"
    /\ Count(failures, Interrupted) < MaxInterrupts
    /\ failures' = Append(failures, Interrupted)
    /\ UNCHANGED notLambda
    /\ UNCHANGED <<inTx, lwaiting>>
    /\ UNCHANGED <<downPos, downEof>>
    /\ UNCHANGED <<lsrc, lpos, linput, loutput, lpc, lchunk, loff, copied,
                   dstGot, handlerArgs, lres, lamIn, lamOut, lamWait,
                   okWrites, dstRefused, srcFailed>>

\* What dst.write(buf) can return: DevNull accepts the whole buffer; any
\* other writer accepts some bytes of it or fails.
DstResults(output, buf) ==
    IF output = "Null" THEN {OkN(Len(buf))}
    ELSE {OkN(n) : n \in 0..Len(buf)}
           \cup {ErrE(LambdaWriteErr), ErrE(Interrupted)}

\* Shim::write: forward to w, then hand the accepted bytes to the handler.
\* r is what self.w.write(buf) returned; the result is the value returned
\* and the handler invocations made.
ShimWriteObserveFirst(buf, r) == [ret |-> r, calls |-> <<buf>>]
ShimWriteSwallowErr(buf, r) ==
    IF r.ok THEN [ret |-> r, calls |-> <<SubSeq(buf, 1, r.n)>>]
    ELSE [ret |-> OkN(Len(buf)), calls |-> <<>>]
ShimWriteWholeBuf(buf, r) ==
    IF r.ok THEN [ret |-> r, calls |-> <<buf>>]
    ELSE [ret |-> r, calls |-> <<>>]
ShimWriteReportAll(buf, r) ==
    IF r.ok THEN [ret |-> OkN(Len(buf)), calls |-> <<SubSeq(buf, 1, r.n)>>]
    ELSE [ret |-> r, calls |-> <<>>]
ShimWrite(buf, r) ==
    IF r.ok THEN [ret |-> r, calls |-> <<SubSeq(buf, 1, r.n)>>]
    ELSE [ret |-> r, calls |-> <<>>]

\* One shim.write of write_all on the rest of the chunk.  write_all fails
\* with WriteZero on Ok(0), tries again on Err(Interrupted), fails on any
\* other Err, and goes on with the rest of the buffer otherwise; io::copy
\* adds the chunk to its total when write_all is through and reads again.
LambdaWrite ==
    /\ lpc = "write"
    /\ LET buf == SubSeq(lchunk, loff + 1, Len(lchunk)) IN
       \E r \in DstResults(loutput, buf) :
         LET sw == ShimWrite(buf, r) IN
         /\ r = ErrE(Interrupted) =>
              Count(failures, Interrupted) < MaxInterrupts
         /\ dstGot' = IF r.ok THEN dstGot \o SubSeq(buf, 1, r.n) ELSE dstGot
         /\ okWrites' = IF r.ok THEN okWrites + 1 ELSE okWrites
         /\ dstRefused' = (dstRefused \/ ~r.ok \/ r.n = 0)
         /\ failures' = IF r.ok THEN failures ELSE Append(failures, r.err)
         /\ handlerArgs' = handlerArgs \o sw.calls
         /\ IF sw.ret = ErrE(Interrupted)
              THEN UNCHANGED <<lpc, lres, loff, copied>>
              ELSE IF ~sw.ret.ok
              THEN /\ lpc' = "done"
                   /\ lres' = sw.ret
                   /\ UNCHANGED <<loff, copied>>
              ELSE IF sw.ret.n = 0
              THEN /\ lpc' = "done"
                   /\ lres' = ErrE(WriteZero)
                   /\ UNCHANGED <<loff, copied>>
              ELSE IF loff + sw.ret.n >= Len(lchunk)
              THEN /\ lpc' = "read"
                   /\ loff' = loff + sw.ret.n
                   /\ copied' = copied + Len(lchunk)
                   /\ UNCHANGED lres
              ELSE /\ loff' = loff + sw.ret.n
                   /\ UNCHANGED <<lpc, lres, copied>>
    /\ UNCHANGED notLambda
    /\ UNCHANGED <<inTx, lwaiting>>
    /\ UNCHANGED <<downPos, downEof>>
    /\ UNCHANGED <<lsrc, lpos, linput, loutput, lchunk, lamIn, lamOut,
                   lamWait, srcFailed>>

\* The source's read or dst's write panics: the copy thread unwinds.
LambdaPanics ==
    /\ lpc \in {"read", "write"}
    /\ lpc' = "panicked"
    /\ UNCHANGED notLambda
    /\ UNCHANGED <<inTx, lwaiting>>
    /\ UNCHANGED <<failures, downPos, downEof>>
    /\ UNCHANGED <<lsrc, lpos, linput, loutput, lchunk, loff, copied, dstGot,
                   handlerArgs, lres, lamIn, lamOut, lamWait, okWrites,
                   dstRefused, srcFailed>>

\* The handler panics: dst has accepted the bytes and Shim::write has
\* invoked the handler with them.
LambdaHandlerPanics ==
    /\ lpc = "write"
    /\ LET buf == SubSeq(lchunk, loff + 1, Len(lchunk)) IN
       \E r \in DstResults(loutput, buf) :
         /\ r.ok
         /\ dstGot' = dstGot \o SubSeq(buf, 1, r.n)
         /\ okWrites' = okWrites + 1
         /\ dstRefused' = (dstRefused \/ r.n = 0)
         /\ handlerArgs' = handlerArgs \o ShimWrite(buf, r).calls
    /\ lpc' = "panicked"
    /\ UNCHANGED notLambda
    /\ UNCHANGED <<inTx, lwaiting>>
    /\ UNCHANGED <<failures, downPos, downEof>>
    /\ UNCHANGED <<lsrc, lpos, linput, loutput, lchunk, loff, copied, lres,
                   lamIn, lamOut, lamWait, srcFailed>>

\* handle.join().unwrap_or(Err(ThreadPanicked)): join is Err exactly when
\* the thread panicked, and r is what the thread returned otherwise.
JoinPanicAsReturned(panicked, r) == r
JoinUnwrapOr(panicked, r) ==
    IF panicked THEN ErrE(ThreadPanicked) ELSE r

\* The caller takes the write end of the input pipe out of RunningLambda.
\* wait consumes the RunningLambda, so this happens before wait is called.
LambdaInputPipe ==
    /\ lpc \in {"spawned", "read", "write", "done", "panicked"}
    /\ ~lwaiting
    /\ lamIn = "in_tx"
    /\ lamIn' = None
    /\ inTx' = "caller"
    /\ UNCHANGED notLambda
    /\ UNCHANGED <<lwaiting, failures, downPos, downEof>>
    /\ UNCHANGED <<lsrc, lpos, linput, loutput, lpc, lchunk, loff, copied,
                   dstGot, handlerArgs, lres, lamOut, lamWait, okWrites,
                   dstRefused, srcFailed>>

\* The caller drops the write end it took: the pipe's write side closes.
CallerClosesInput ==
    /\ inTx = "caller"
    /\ inTx' = "closed"
    /\ UNCHANGED notLambda
    /\ UNCHANGED <<lwaiting, failures, downPos, downEof>>
    /\ UNCHANGED <<lsrc, lpos, linput, loutput, lpc, lchunk, loff, copied,
                   dstGot, handlerArgs, lres, lamIn, lamOut, lamWait,
                   okWrites, dstRefused, srcFailed>>

\* RunningLambda::wait is called: it blocks in handle.join() until the
\* copy thread has ended. self.input_pipe stays alive meanwhile.
LambdaCallWait ==
    /\ lpc \in {"spawned", "read", "write", "done", "panicked"}
    /\ ~lwaiting
    /\ lwaiting' = TRUE
    /\ UNCHANGED notLambda
    /\ UNCHANGED <<inTx, failures, downPos, downEof>>
    /\ UNCHANGED <<lsrc, lpos, linput, loutput, lpc, lchunk, loff, copied,
                   dstGot, handlerArgs, lres, lamIn, lamOut, lamWait,
                   okWrites, dstRefused, srcFailed>>

\* What becomes of the input pipe's write end when wait returns: the rest
\* of self is dropped, which closes an end that was never taken.
DropInputPipe(held, tx) == IF held = "in_tx" THEN "closed" ELSE tx

\* RunningLambda::wait returns: the join has ended, the value is what the
\* copy thread returned, and the remaining fields of self are dropped.
LambdaWait ==
    /\ lwaiting
    /\ lpc \in {"done", "panicked"}
    /\ lamWait' = JoinUnwrapOr(lpc = "panicked", lres)
    /\ lpc' = "waited"
    /\ lamIn' = None
    /\ inTx' = DropInputPipe(lamIn, inTx)
    /\ UNCHANGED notLambda
    /\ UNCHANGED <<lwaiting, failures, downPos, downEof>>
    /\ UNCHANGED <<lsrc, lpos, linput, loutput, lchunk, loff, copied, dstGot,
                   handlerArgs, lres, lamOut, okWrites, dstRefused,
                   srcFailed>>

\* The copy thread has ended, so its end of the output is closed.
ClosedAtSourceEof == lpos = Len(lsrc)
LambdaThreadEnded == lpc \in {"done", "panicked", "waited"}

\* The stage downstream of an output pipe (or owned descriptor) reads some
\* of the bytes the Lambda has written to it.
DownRead ==
    /\ loutput \in {"Fd", "PipeRequested"}
    /\ ~downEof
    /\ \E k \in 1..Min(MaxCopyBuf, Len(dstGot) - downPos) :
         downPos' = downPos + k
    /\ UNCHANGED notLambda
    /\ UNCHANGED <<inTx, lwaiting>>
    /\ UNCHANGED <<failures, downEof>>
    /\ UNCHANGED <<lsrc, lpos, linput, loutput, lpc, lchunk, loff, copied,
                   dstGot, handlerArgs, lres, lamIn, lamOut, lamWait,
                   okWrites, dstRefused, srcFailed>>

\* It reads end-of-data: the pipe is empty and its write end is closed.
DownEof ==
    /\ loutput \in {"Fd", "PipeRequested"}
    /\ ~downEof
    /\ downPos = Len(dstGot)
    /\ LambdaThreadEnded
    /\ downEof' = TRUE
    /\ UNCHANGED notLambda
    /\ UNCHANGED <<inTx, lwaiting>>
    /\ UNCHANGED <<failures, downPos>>
    /\ UNCHANGED <<lsrc, lpos, linput, loutput, lpc, lchunk, loff, copied,
                   dstGot, handlerArgs, lres, lamIn, lamOut, lamWait,
                   okWrites, dstRefused, srcFailed>>

LambdaNext ==
    \/ LambdaStart
    \/ LambdaStartFails
    \/ LambdaMatchInput
    \/ LambdaRead
    \/ LambdaReadInterrupted
    \/ LambdaReadFails
    \/ LambdaWrite
    \/ LambdaPanics
    \/ LambdaHandlerPanics
    \/ LambdaInputPipe
    \/ CallerClosesInput
    \/ LambdaCallWait
    \/ LambdaWait
    \/ DownRead
    \/ DownEof

\* ------------------------------------------------------------------------
\* The pipe accessors of the running stages (traits.rs, lambda.rs,
\* process.rs, tee.rs)
\* ------------------------------------------------------------------------
Stages == {"Lambda", "Child", "Tee"}

PipesInit ==
    /\ stage = None
    /\ pinput = None
    /\ poutput = None
    /\ ppc = "new"
    /\ input_pipe = None
    /\ output_pipe = None
    /\ inCalls = <<>>
    /\ outCalls = <<>>

\* ChildProcess::start: how the Command's stdin and stdout are configured.
ChildStdin(input) ==
    CASE input = "Null" -> "Stdio::null"
      [] input = "PipeRequested" -> "Stdio::piped"
      [] input = "Fd" -> "fd"
      [] input = "Rust" -> "pipe rx"

ChildStdout(output) ==
    CASE output = "Null" -> "Stdio::null"
      [] output = "PipeRequested" -> "Stdio::piped"
      [] output = "Fd" -> "fd"
      [] output = "Rust" -> "pipe tx"

\* Command::spawn gives the Child a stdin (stdout) handle exactly for
\* Stdio::piped(); RunningChild's accessors take them from the Child.
ChildPipes(input, output) ==
    [input_pipe |-> IF ChildStdin(input) = "Stdio::piped" THEN "child.stdin" ELSE None,
     output_pipe |-> IF ChildStdout(output) = "Stdio::piped" THEN "child.stdout" ELSE None]

StagePipes(st, input, output) ==
    CASE st = "Lambda" -> LambdaPipes(input, output)
      [] st = "Child" -> ChildPipes(input, output)
      [] st = "Tee" -> TeePipes(input, output)

\* start returns a Running stage.
StartStage ==
    /\ ppc = "new"
    /\ \E st \in Stages, input \in ReadStream, output \in WriteStream :
         /\ stage' = st
         /\ pinput' = input
         /\ poutput' = output
         /\ input_pipe' = StagePipes(st, input, output).input_pipe
         /\ output_pipe' = StagePipes(st, input, output).output_pipe
    /\ ppc' = "running"
    /\ UNCHANGED notPipes
    /\ UNCHANGED <<inCalls, outCalls>>

\* start fails (pipe creation or spawn): there is no Running stage.
StartStageFails ==
    /\ ppc = "new"
    /\ \E st \in Stages, input \in ReadStream, output \in WriteStream :
         /\ st = "Child" \/ "PipeRequested" \in {input, output}
         /\ stage' = st
         /\ pinput' = input
         /\ poutput' = output
    /\ ppc' = "startfailed"
    /\ UNCHANGED notPipes
    /\ UNCHANGED <<input_pipe, output_pipe, inCalls, outCalls>>

\* Option::take: the value is returned and None is left behind.
takeKeep(opt) == [ret |-> opt, left |-> opt]
take(opt) == [ret |-> opt, left |-> None]

\* input_pipe(&mut self)
InputPipe ==
    /\ ppc = "running"
    /\ Len(inCalls) < MaxCalls
    /\ inCalls' = Append(inCalls, take(input_pipe).ret)
    /\ input_pipe' = take(input_pipe).left
    /\ UNCHANGED notPipes
    /\ UNCHANGED <<stage, pinput, poutput, ppc, output_pipe, outCalls>>

\* output_pipe(&mut self)
OutputPipe ==
    /\ ppc = "running"
    /\ Len(outCalls) < MaxCalls
    /\ outCalls' = Append(outCalls, take(output_pipe).ret)
    /\ output_pipe' = take(output_pipe).left
    /\ UNCHANGED notPipes
    /\ UNCHANGED <<stage, pinput, poutput, ppc, input_pipe, inCalls>>

PipesNext ==
    \/ StartStage
    \/ StartStageFails
    \/ InputPipe
    \/ OutputPipe

\* ------------------------------------------------------------------------
\* ChildExit::combine and the rendering of ChildExitError (process.rs)
\* ------------------------------------------------------------------------
IoErrors == {"Broken pipe", ThreadPanicked}

\* io::Result<ExitStatus>
ChildOk(status) == [tag |-> "Ok", status |-> status, err |-> ""]
ChildErr(e) == [tag |-> "Err", status |-> 0, err |-> e]

\* Option<io::Result<()>>: None, Ok or the io::Error.
ThreadOutcomes == {None, Ok} \cup IoErrors

ChildExits ==
    [child : {ChildOk(st) : st \in 0..MaxStatus} \cup {ChildErr(e) : e \in IoErrors},
     read_thread : ThreadOutcomes,
     write_thread : ThreadOutcomes]

CombineInit ==
    /\ exit \in ChildExits
    /\ cpc = "waited"
    /\ combined = <<>>
    /\ text = ""

\* ExitStatus::success
success(status) == status = 0

\* if let Some(Err(e)) = ...
IsSomeOutcome(t) == t # None
IsSomeErr(t) == t \notin {None, Ok}

\* A ChildExitError: kind, the kind's payload and next (<<>> for None,
\* <<e>> for Some(Box::new(e))).
ChildExitError(kind, e, status, next) ==
    [kind |-> kind, e |-> e, status |-> status, next |-> next]

\* The link combine makes for a failed read thread; next is what the
\* recursive combine().err() gave.
ReadThreadErrorNoNext(e, next) == ChildExitError("ReadThread", e, 0, <<>>)
ReadThreadError(e, next) == ChildExitError("ReadThread", e, 0, next)

RECURSIVE combineWriteFirst(_)
combineWriteFirst(self) ==
    LET child == self.child
        rest == [self EXCEPT !.child = ChildOk(0)]
    IN  IF child.tag = "Err"
          THEN <<ChildExitError("ChildWait", child.err, 0, combineWriteFirst(rest))>>
        ELSE IF ~success(child.status)
          THEN <<ChildExitError("ChildExit", "", child.status, combineWriteFirst(rest))>>
        ELSE IF IsSomeErr(self.write_thread)
          THEN <<ChildExitError("WriteThread", self.write_thread, 0,
                     combineWriteFirst([rest EXCEPT !.write_thread = None]))>>
        ELSE IF IsSomeErr(self.read_thread)
          THEN <<ChildExitError("ReadThread", self.read_thread, 0, <<>>)>>
        ELSE <<>>

\* ChildExit::combine.  replace() leaves Ok(ExitStatus::from_raw(0)) in
\* child and None in read_thread before the recursive call.
RECURSIVE combine(_)
combine(self) ==
    LET child == self.child
        rest == [self EXCEPT !.child = ChildOk(0)]
    IN  IF child.tag = "Err"
          THEN <<ChildExitError("ChildWait", child.err, 0, combine(rest))>>
        ELSE IF ~success(child.status)
          THEN <<ChildExitError("ChildExit", "", child.status, combine(rest))>>
        ELSE IF IsSomeErr(self.read_thread)
          THEN <<ReadThreadError(self.read_thread,
                     combine([rest EXCEPT !.read_thread = None]))>>
        ELSE IF IsSomeErr(self.write_thread)
          THEN <<ChildExitError("WriteThread", self.write_thread, 0, <<>>)>>
        ELSE <<>>

Combine ==
    /\ cpc = "waited"
    /\ combined' = combine(exit)
    /\ cpc' = "combined"
    /\ UNCHANGED notCombine
    /\ UNCHANGED <<exit, text>>

\* Display for ExitStatus
StatusText(status) == "exit status: " \o ToString(status)

\* Display for ChildExitErrorKind
KindFmt(err) ==
    CASE err.kind = "ChildWait" -> "failed to wait on child process: " \o err.e
      [] err.kind = "ChildExit" -> "child exited unsuccessfully: " \o StatusText(err.status)
      [] err.kind = "ReadThread" -> "read copy thread failed: " \o err.e
      [] err.kind = "WriteThread" -> "Write copy thread failed: " \o err.e

AndAlso == "\n   and also "

\* Display for ChildExitError: the kind, then "\n   and also {next}".
fmtOneNext(err) ==
    KindFmt(err) \o
      (IF err.next # <<>> THEN AndAlso \o KindFmt(err.next[1]) ELSE "")
RECURSIVE fmt(_)
fmt(err) ==
    KindFmt(err) \o
      (IF err.next # <<>> THEN AndAlso \o fmt(err.next[1]) ELSE "")

\* The caller renders the failure combine returned.
Render ==
    /\ cpc = "combined"
    /\ combined # <<>>
    /\ text' = fmt(combined[1])
    /\ cpc' = "rendered"
    /\ UNCHANGED notCombine
    /\ UNCHANGED <<exit, combined>>

CombineNext ==
    \/ Combine
    \/ Render

\* ------------------------------------------------------------------------
\* ChildProcess::start and RunningChild::wait (process.rs)
\* ------------------------------------------------------------------------
PipeErr == "pipe creation failed"
SpawnErr == "spawn failed"
WaitErr == "No child processes"

\* The two bridging threads: t1 copies the input stream to the child's
\* stdin, t2 copies the child's stdout to the output stream.
Bridges == 1..2

\* The value of cexit before wait has returned.
NoExit == [child |-> ChildErr("not waited"), read_thread |-> None,
           write_thread |-> None]

\* A ChildProcess before start (pc = "new"), or none at all (pc = "off").
ChildAt(pc) ==
    /\ chpc = pc
    /\ cinput = None
    /\ coutput = None
    /\ cstart = None
    /\ bridge = [t \in Bridges |-> "none"]
    /\ handles = [t \in Bridges |-> FALSE]
    /\ proc = "none"
    /\ cstatus = ChildErr("not exited")
    /\ cexit = NoExit

ChildInit == ChildAt("new")

\* The arms of start's two matches that create a pipe and a thread.
BridgeNeededForPipe(variant) == variant \in {"Rust", "PipeRequested"}
BridgeNeeded(variant) == variant = "Rust"

\* Where start can fail: the pipe of the input arm, the pipe of the output
\* arm, cmd.spawn().
FailPoints == {"in_pipe", "out_pipe", "spawn"}

\* ChildProcess::start, statement by statement, failing at the given point
\* (or nowhere, for "none"): the threads it has spawned when it returns,
\* what it returns and the handles the RunningChild holds.
start(input, output, fail) ==
    LET fail1 == BridgeNeeded(input) /\ fail = "in_pipe"
        t1 == BridgeNeeded(input) /\ ~fail1
        fail2 == ~fail1 /\ BridgeNeeded(output) /\ fail = "out_pipe"
        t2 == ~fail1 /\ BridgeNeeded(output) /\ ~fail2
        fail3 == ~fail1 /\ ~fail2 /\ fail = "spawn"
        ok == ~fail1 /\ ~fail2 /\ ~fail3
    IN [ret |-> IF fail1 \/ fail2 THEN PipeErr
                ELSE IF fail3 THEN SpawnErr ELSE Ok,
        spawned |-> <<t1, t2>>,
        threads |-> IF ok THEN <<t1, t2>> ELSE <<FALSE, FALSE>>,
        child |-> ok]

\* start returns Ok(RunningChild).
ChildStart ==
    /\ chpc = "new"
    /\ \E input \in ReadStream, output \in WriteStream :
         LET st == start(input, output, "none") IN
         /\ cinput' = input
         /\ coutput' = output
         /\ cstart' = st.ret
         /\ bridge' = [t \in Bridges |->
                         IF st.spawned[t] THEN "running" ELSE "none"]
         /\ handles' = [t \in Bridges |-> st.threads[t]]
    /\ proc' = "running"
    /\ chpc' = "running"
    /\ UNCHANGED notChild
    /\ UNCHANGED <<cstatus, cexit>>

\* start returns Err: a ? has dropped t1, t2 and the Command.  A thread
\* whose JoinHandle is dropped runs on, detached.
ChildStartFails ==
    /\ chpc = "new"
    /\ \E input \in ReadStream, output \in WriteStream, fail \in FailPoints :
         LET st == start(input, output, fail) IN
         /\ st.ret # Ok
         /\ cinput' = input
         /\ coutput' = output
         /\ cstart' = st.ret
         /\ bridge' = [t \in Bridges |->
                         IF st.spawned[t] THEN "running" ELSE "none"]
         /\ handles' = [t \in Bridges |-> st.threads[t]]
    /\ chpc' = "startfailed"
    /\ UNCHANGED notChild
    /\ UNCHANGED <<proc, cstatus, cexit>>

\* A bridging thread ends: io::copy returned Ok or Err, or the stream
\* panicked.
BridgeEnds(t) ==
    /\ bridge[t] = "running"
    /\ \E r \in {Ok, "Broken pipe", Panicked} :
         bridge' = [bridge EXCEPT ![t] = r]
    /\ UNCHANGED notChild
    /\ UNCHANGED <<chpc, cinput, coutput, cstart, handles, proc, cstatus,
                   cexit>>

\* The child exits; child.wait() will answer with its status, or fail.
ChildProcExits ==
    /\ proc = "running"
    /\ proc' = "exited"
    /\ cstatus' \in {ChildOk(st) : st \in 0..MaxStatus} \cup {ChildErr(WaitErr)}
    /\ UNCHANGED notChild
    /\ UNCHANGED <<chpc, cinput, coutput, cstart, bridge, handles, cexit>>

\* wait's closure over threads: None for an empty slot, otherwise the join
\* of the thread, a panic becoming ThreadPanicked::ioerr().
JoinSlot(held, r) ==
    IF ~held THEN None ELSE IF r = Panicked THEN ThreadPanicked ELSE r

\* RunningChild::wait: join the threads of the occupied slots, then wait
\* for the child.
ChildWait ==
    /\ chpc = "running"
    /\ \A t \in Bridges : handles[t] => bridge[t] # "running"
    /\ proc = "exited"
    /\ cexit' = [child |-> cstatus,
                 read_thread |-> JoinSlot(handles[1], bridge[1]),
                 write_thread |-> JoinSlot(handles[2], bridge[2])]
    /\ chpc' = "waited"
    /\ UNCHANGED notChild
    /\ UNCHANGED <<cinput, coutput, cstart, bridge, handles, proc, cstatus>>

ChildNext ==
    \/ ChildStart
    \/ ChildStartFails
    \/ \E t \in Bridges : BridgeEnds(t)
    \/ ChildProcExits
    \/ ChildWait

\* The other subsystems at rest.
TeeIdle == stream = <<>> /\ TeeNew(0)
LambdaIdle == LambdaInit /\ lsrc = <<>>
PipesIdle == PipesInit
CombineIdle == CombineInit /\ exit = [child |-> ChildOk(0), read_thread |-> None, write_thread |-> None]
ChildIdle == ChildInit

InitTee == TeeInit /\ LambdaIdle /\ PipesIdle /\ CombineIdle /\ ChildIdle
SpecTee == InitTee /\ [][TeeNext]_vars

InitLambda == LambdaInit /\ TeeIdle /\ PipesIdle /\ CombineIdle /\ ChildIdle
SpecLambda == InitLambda /\ [][LambdaNext]_vars

InitPipes == PipesInit /\ TeeIdle /\ LambdaIdle /\ CombineIdle /\ ChildIdle
SpecPipes == InitPipes /\ [][PipesNext]_vars

InitCombine == CombineInit /\ TeeIdle /\ LambdaIdle /\ PipesIdle /\ ChildIdle
SpecCombine == InitCombine /\ [][CombineNext]_vars

\* Fair scheduling of the Tee's threads: the reader thread, each delivery
\* thread and the caller of wait take a step they can take.
ReaderStep ==
    \/ ReaderLock
    \/ ReaderRead
    \/ ReaderReadFails
    \/ ReaderBreak
    \/ ReaderPublish
    \/ ReaderSend
    \/ ReaderSendFails
    \/ ReaderRemoveDead
    \/ ReaderBarrier
SinkRun(s) ==
    \/ SinkRecvClosed(s)
    \/ SinkLock(s)
    \/ SinkWrite(s)
    \/ SinkWriteFails(s)
    \/ SinkNotify(s)
    \/ SinkCheck(s)
TeeFairness ==
    /\ WF_vars(ReaderStep)
    /\ \A s \in SinkIds : WF_vars(SinkRun(s))
    /\ WF_vars(TeeWait)
SpecTeeFair == InitTee /\ [][TeeNext]_vars /\ TeeFairness

\* A Tee whose sinks' writers may panic.
NextTeePanic ==
    \/ TeeNext
    \/ \E s \in SinkIds : SinkPanics(s)
SpecTeePanic == InitTee /\ [][NextTeePanic]_vars

InitChild == ChildInit /\ TeeIdle /\ LambdaIdle /\ PipesIdle /\ CombineIdle
SpecChild == InitChild /\ [][ChildNext]_vars

\* One stage with background threads is run: a Lambda or a ChildProcess.
LambdaOff ==
    /\ lsrc = <<>>
    /\ lpos = 0
    /\ linput = None
    /\ loutput = None
    /\ lpc = "off"
    /\ lchunk = <<>>
    /\ loff = 0
    /\ copied = 0
    /\ dstGot = <<>>
    /\ handlerArgs = <<>>
    /\ lres = NotFinished
    /\ lamIn = None
    /\ lamOut = None
    /\ lamWait = NotFinished
    /\ okWrites = 0
    /\ dstRefused = FALSE
    /\ srcFailed = FALSE
    /\ failures = <<>>
    /\ downPos = 0
    /\ downEof = FALSE
    /\ inTx = "none"
    /\ lwaiting = FALSE
ChildOff == ChildAt("off")

InitLambdaOrChild ==
    /\ TeeIdle
    /\ PipesIdle
    /\ CombineIdle
    /\ \/ LambdaInit /\ ChildOff
       \/ LambdaOff /\ ChildInit
NextLambdaOrChild ==
    \/ LambdaNext
    \/ ChildNext
SpecLambdaOrChild == InitLambdaOrChild /\ [][NextLambdaOrChild]_vars

\* ------------------------------------------------------------------------
\* Properties of the Tee
\* ------------------------------------------------------------------------
Registered(s) == spc[s] # "none"

\* The sink's write_all has failed.
Failed(s) == res[s] = WriteErr(s)

LiveSink(s) == Registered(s) /\ ~Failed(s)

\* The reader is between two rounds: the barrier of the last published chunk
\* is behind it.
BetweenRounds == rpc \in {"lock", "fill", "filled", "done"}

\* C1: every sink that stays live receives the chunks the reader published,
\* with the same content and boundaries and in the same order, missing at
\* most the chunk of the round in progress; what it received is the input
\* stream from its first byte on, and it is the whole stream once the reader
\* has ended at end-of-data (buffer size >= 1).
TeeBroadcastFidelity ==
    /\ \A s \in SinkIds : LiveSink(s) =>
         /\ IsPrefix(got[s], chunks)
         /\ Len(got[s]) >= Len(chunks) - 1
         /\ BetweenRounds => got[s] = chunks
         /\ wr[s] = Flatten(got[s])
         /\ IsPrefix(wr[s], stream)
         /\ \A t \in SinkIds : LiveSink(t) =>
              IsPrefix(got[s], got[t]) \/ IsPrefix(got[t], got[s])
    /\ (bufSize >= 1 /\ threadRes[Reader] = Ok) =>
         \A s \in SinkIds : LiveSink(s) => wr[s] = stream

\* Two live sinks have received the same three bytes in two chunks, the
\* second one short, and wait has returned.
TeeBroadcastFidelityWitness ==
    /\ waitRes # <<>>
    /\ Len(stream) = 3
    /\ bufSize = 2
    /\ LiveSink(1) /\ LiveSink(2)
    /\ got[1] = <<<<1, 2>>, <<3>>>>
    /\ got[2] = got[1]

\* C2: while the reader holds write access to the buffer no delivery thread
\* is between the hand-off of a chunk and its acknowledgement; the buffer a
\* delivery thread holds is the chunk of the round it was handed in, and so
\* is every chunk it has written.
TeeBarrier ==
    /\ lockW => \A s \in SinkIds : spc[s] \in {"none", "recv", "check", "exited"}
    /\ \A s \in SinkIds :
         /\ spc[s] \in {"gotbuf", "writing"} =>
              /\ handed[s] = Len(chunks)
              /\ buffer = chunks[handed[s]]
         /\ \A j \in 1..Len(got[s]) :
              /\ wrote[s][j] = j
              /\ got[s][j] = chunks[j]
         /\ Registered(s) =>
              IsPrefix(wr[s], Flatten(SubSeq(chunks, 1, handed[s])))

\* In the second round one sink has acknowledged and the reader waits at the
\* barrier for another one that is still writing.
TeeBarrierWitness ==
    /\ rpc = "barrier"
    /\ Len(chunks) = 2
    /\ \E s, t \in SinkIds :
         /\ spc[s] = "writing" /\ handed[s] = 2
         /\ spc[t] = "check" /\ handed[t] = 2

\* C3: a sink's write failure does not stop the broadcast: the Tee is never
\* stuck, the other sinks have every chunk once the reader has left the
\* barrier, they have the whole stream when the reader ended at end-of-data,
\* and wait reports the write failure in the failed sink's slot and success
\* in the slot of every sink that did not fail.
TeeDeadSinkResilience ==
    /\ \A s \in SinkIds : Failed(s) =>
         /\ (rpc \notin {"startfailed"} /\ waitRes = <<>>) => ENABLED TeeNext
         /\ \A t \in SinkIds : LiveSink(t) =>
              /\ BetweenRounds => (got[t] = chunks /\ Len(got[t]) >= handed[s])
              /\ (bufSize >= 1 /\ threadRes[Reader] = Ok) => wr[t] = stream
    /\ waitRes # <<>> =>
         \A s \in SinkIds : Registered(s) =>
            waitRes[s + 1] = IF Failed(s) THEN WriteErr(s) ELSE Ok

\* Sink 1 failed on the first chunk, sink 2 received that chunk and the
\* following one, and wait has returned.
TeeDeadSinkResilienceWitness ==
    /\ waitRes = <<Ok, WriteErr(1), Ok>>
    /\ handed[1] = 1
    /\ Len(got[2]) = 2
    /\ wr[2] = stream

\* ------------------------------------------------------------------------
\* Properties of the Lambda
\* ------------------------------------------------------------------------

\* C4: the handler is invoked once for every write the sink accepted and
\* for no other write, and the bytes it has been given so far are exactly
\* the bytes the sink has accepted so far.
LambdaHandlerVisibility ==
    /\ Len(handlerArgs) = okWrites
    /\ Flatten(handlerArgs) = dstGot

\* The sink accepted one byte of a two-byte chunk and then failed: the
\* handler saw that byte only.
LambdaHandlerVisibilityWitness ==
    /\ lpc = "done"
    /\ lres = ErrE(LambdaWriteErr)
    /\ lchunk = <<1, 2>>
    /\ loff = 1
    /\ handlerArgs = <<<<1>>>>

\* The bytes the source of the Lambda yields: nothing for a Null input.
LambdaSource == IF linput = "Null" THEN <<>> ELSE lsrc

\* The copy thread panicked: it ended without returning a result.
LambdaPanicked ==
    \/ lpc = "panicked"
    \/ lpc = "waited" /\ lres = NotFinished

\* C5: the sink never holds anything but the first bytes of the source, in
\* order; when the copy has ended without a panic, without a failed read and
\* without a write the sink refused, the sink holds the whole source and the
\* thread's result and the result of wait are success.
LambdaByteExact ==
    /\ IsPrefix(dstGot, LambdaSource)
    /\ (lpc \in {"done", "waited"} /\ ~LambdaPanicked /\ ~dstRefused
          /\ ~srcFailed) =>
         /\ dstGot = LambdaSource
         /\ lres = OkN(Len(LambdaSource))
    /\ (lpc = "waited" /\ ~LambdaPanicked /\ ~dstRefused /\ ~srcFailed) =>
         lamWait = OkN(Len(LambdaSource))

\* Three bytes went through in three writes of one byte and wait returned
\* success.
LambdaByteExactWitness ==
    /\ lpc = "waited"
    /\ lamWait = OkN(3)
    /\ dstGot = <<1, 2, 3>>
    /\ okWrites = 3
    /\ ~dstRefused

\* ------------------------------------------------------------------------
\* Properties of the pipe accessors
\* ------------------------------------------------------------------------

\* C6: of the calls of input_pipe (output_pipe) on a Running stage, the
\* first returns a handle exactly when the input (output) was PipeRequested;
\* every other call returns None.
PipeAccessors ==
    /\ ppc # "running" => (inCalls = <<>> /\ outCalls = <<>>)
    /\ \A i \in 1..Len(inCalls) :
         (inCalls[i] # None) <=> (i = 1 /\ pinput = "PipeRequested")
    /\ \A i \in 1..Len(outCalls) :
         (outCalls[i] # None) <=> (i = 1 /\ poutput = "PipeRequested")

\* A RunningTee with both pipes requested: each accessor gave its handle on
\* the first call and None afterwards.
PipeAccessorsWitness ==
    /\ stage = "Tee"
    /\ inCalls = <<"in_tx", None, None>>
    /\ outCalls = <<"out_rx", None>>

\* ------------------------------------------------------------------------
\* Properties of combine and of the rendering
\* ------------------------------------------------------------------------

\* A failure without its place in a chain.
Failure(kind, e, status) == [kind |-> kind, e |-> e, status |-> status]

\* The links of a chain, head first.
RECURSIVE Links(_)
Links(chain) ==
    IF chain = <<>> THEN <<>>
    ELSE <<Failure(chain[1].kind, chain[1].e, chain[1].status)>>
         \o Links(chain[1].next)

\* The failures present in a ChildExit.
PresentFailures(cx) ==
    (IF cx.child.tag = "Err" THEN {Failure("ChildWait", cx.child.err, 0)}
     ELSE IF cx.child.status # 0 THEN {Failure("ChildExit", "", cx.child.status)}
     ELSE {})
    \cup (IF cx.read_thread \in IoErrors
            THEN {Failure("ReadThread", cx.read_thread, 0)} ELSE {})
    \cup (IF cx.write_thread \in IoErrors
            THEN {Failure("WriteThread", cx.write_thread, 0)} ELSE {})

Combined == cpc \in {"combined", "rendered"}

\* C7: the chain combine returns holds every failure present in the
\* ChildExit exactly once and nothing else.
CombineCompleteness ==
    Combined =>
        /\ Range(Links(combined)) = PresentFailures(exit)
        /\ Len(Links(combined)) = Cardinality(PresentFailures(exit))

\* A nonzero exit together with a failed output bridge: both are in the
\* chain.
CombineCompletenessWitness ==
    /\ Combined
    /\ exit = [child |-> ChildOk(1), read_thread |-> Ok, write_thread |-> "Broken pipe"]
    /\ Links(combined) = <<Failure("ChildExit", "", 1),
                           Failure("WriteThread", "Broken pipe", 0)>>

Rank(kind) ==
    CASE kind = "ChildWait" -> 1
      [] kind = "ChildExit" -> 2
      [] kind = "ReadThread" -> 3
      [] kind = "WriteThread" -> 4

\* C8: the links of the chain are in the order child-wait failure, nonzero
\* exit, read-thread failure, write-thread failure, and the head is the
\* first present failure in that order.
CombineOrdering ==
    Combined =>
        LET ls == Links(combined) IN
        /\ \A i, j \in 1..Len(ls) : i < j => Rank(ls[i].kind) < Rank(ls[j].kind)
        /\ PresentFailures(exit) # {} =>
             /\ ls # <<>>
             /\ \A f \in PresentFailures(exit) : Rank(ls[1].kind) <= Rank(f.kind)

\* All three sources failed: the chain is child wait, read thread, write
\* thread.
CombineOrderingWitness ==
    /\ Combined
    /\ exit.child.tag = "Err"
    /\ [i \in 1..Len(Links(combined)) |-> Links(combined)[i].kind]
         = <<"ChildWait", "ReadThread", "WriteThread">>

\* C9: combine returns Ok(()) exactly when the child was waited for
\* successfully, exited with success and neither thread outcome is a
\* failure; otherwise it returns one failure value.
CombineSuccess ==
    Combined =>
        /\ (combined = <<>>) <=>
              /\ exit.child.tag = "Ok"
              /\ exit.child.status = 0
              /\ exit.read_thread \in {None, Ok}
              /\ exit.write_thread \in {None, Ok}
        /\ Len(combined) <= 1

\* A successful child with one bridging thread that succeeded and one that
\* was never created: combine returns Ok(()).
CombineSuccessWitness ==
    /\ Combined
    /\ exit = [child |-> ChildOk(0), read_thread |-> Ok, write_thread |-> None]
    /\ combined = <<>>

\* The text of the links from the i-th on, each after the separator.
RECURSIVE AlsoFrom(_, _)
AlsoFrom(ls, i) ==
    IF i > Len(ls) THEN ""
    ELSE "\n   and also " \o KindFmt(ls[i]) \o AlsoFrom(ls, i + 1)

\* C10: the rendering of a chain is the message of its head followed, for
\* every further link in chain order, by the separator and that link's
\* message.
RenderChain ==
    cpc = "rendered" =>
        LET ls == Links(combined) IN
        text = KindFmt(ls[1]) \o AlsoFrom(ls, 2)

\* A chain of three links has been rendered.
RenderChainWitness ==
    /\ cpc = "rendered"
    /\ Len(Links(combined)) = 3
    /\ text = "child exited unsuccessfully: exit status: 2"
              \o "\n   and also read copy thread failed: Broken pipe"
              \o "\n   and also Write copy thread failed: copy thread panicked"

\* ------------------------------------------------------------------------
\* Properties of the Lambda: failures and counting
\* ------------------------------------------------------------------------

\* The failures of reads and writes that io::copy does not answer by
\* retrying.
HardFailures == SelectSeq(failures, LAMBDA e : e # Interrupted)

\* C16 as stated: once a read of the source or a write to the sink has
\* failed, the copy has stopped and that failure is the thread's result and
\* the result of wait; wait returns success only when the source is at
\* end-of-data and no read or write failed.
LambdaStopsAtAnyFailure ==
    /\ failures # <<>> =>
         /\ lpc \in {"done", "waited"}
         /\ Len(failures) = 1
         /\ lres = ErrE(failures[1])
         /\ lpc = "waited" => lamWait = ErrE(failures[1])
    /\ (lpc = "waited" /\ lamWait.ok) =>
         /\ lpos = Len(LambdaSource)
         /\ failures = <<>>

\* C16: once a read of the source or a write to the sink has failed with
\* anything but Interrupted, the copy has stopped (no later read, write or
\* handler invocation) and that failure is the thread's result and the
\* result of wait; wait returns success only when the source is at
\* end-of-data and the sink has accepted all of it, no read or write having
\* failed with anything but Interrupted.
LambdaFirstHardFailure ==
    /\ HardFailures # <<>> =>
         /\ lpc \in {"done", "waited"}
         /\ Len(HardFailures) = 1
         /\ failures[Len(failures)] = HardFailures[1]
         /\ lres = ErrE(HardFailures[1])
         /\ lpc = "waited" => lamWait = ErrE(HardFailures[1])
    /\ (lpc = "waited" /\ lamWait.ok) =>
         /\ lpos = Len(LambdaSource)
         /\ dstGot = LambdaSource
         /\ HardFailures = <<>>

\* The sink accepted the first byte, a write was interrupted and retried,
\* the next write failed: wait returned that failure.
LambdaFirstHardFailureWitness ==
    /\ lpc = "waited"
    /\ failures = <<Interrupted, LambdaWriteErr>>
    /\ dstGot = <<1>>
    /\ handlerArgs = <<<<1>>>>
    /\ lamWait = ErrE(LambdaWriteErr)

\* C17: a Lambda whose input is the owned descriptor of an upstream pipe
\* that delivers N bytes and whose output goes to a downstream reader: when
\* wait has returned success, the lengths of the buffers handed to the
\* handler add up to N, the handler saw the source's bytes in order, the
\* output pipe was given exactly those bytes, and a downstream that has read
\* to end-of-data has received exactly those N bytes.
LambdaChainCount ==
    /\ downPos <= Len(dstGot)
    /\ (linput = "Fd" /\ loutput \in {"Fd", "PipeRequested"}
          /\ lpc = "waited" /\ lamWait.ok) =>
         /\ Len(Flatten(handlerArgs)) = Len(lsrc)
         /\ Flatten(handlerArgs) = lsrc
         /\ lamWait = OkN(Len(lsrc))
         /\ dstGot = lsrc
         /\ downEof => SubSeq(dstGot, 1, downPos) = lsrc

\* Three bytes came from the upstream descriptor, the handler was invoked
\* three times (a chunk of two went out in two writes), wait returned
\* success and the downstream has read the three bytes and end-of-data.
LambdaChainCountWitness ==
    /\ linput = "Fd"
    /\ loutput = "PipeRequested"
    /\ lpc = "waited"
    /\ lamWait = OkN(3)
    /\ Len(handlerArgs) = 3
    /\ Len(handlerArgs[1]) = 1
    /\ downEof
    /\ downPos = 3

\* ------------------------------------------------------------------------
\* Properties of ChildProcess and of panicking threads
\* ------------------------------------------------------------------------

\* What the slot of bridging thread t must hold in the ChildExit: nothing
\* when the thread was never created, ThreadPanicked when it panicked, and
\* otherwise what its io::copy returned (Ok, or the error).
Observed(t) ==
    IF bridge[t] = "none" THEN None
    ELSE IF bridge[t] = Panicked THEN ThreadPanicked
    ELSE bridge[t]

Slot(t) == IF t = 1 THEN cexit.read_thread ELSE cexit.write_thread

\* C11: when the copy thread of a Lambda has panicked, wait returns the
\* ThreadPanicked failure (not success, not a read or write failure), and
\* it returns ThreadPanicked in no other case; when a bridging thread of a
\* child has panicked, the ChildExit returned by wait holds ThreadPanicked
\* in that thread's slot, the child's own wait outcome, and the other
\* thread's outcome in the other slot.
PanicReported ==
    /\ lpc = "waited" =>
         (LambdaPanicked <=> lamWait = ErrE(ThreadPanicked))
    /\ (lpc = "waited" /\ LambdaPanicked) =>
         /\ ~lamWait.ok
         /\ lamWait.err \notin {LambdaReadErr, LambdaWriteErr, WriteZero}
    /\ chpc = "waited" =>
         \A t \in Bridges :
            bridge[t] = Panicked =>
               /\ Slot(t) = ThreadPanicked
               /\ Slot(3 - t) = Observed(3 - t)
               /\ cexit.child = cstatus

\* The input bridging thread of a child panicked and the output bridging
\* thread failed; the child exited with status 1: wait reports all three.
PanicReportedWitness ==
    /\ chpc = "waited"
    /\ bridge = <<Panicked, "Broken pipe">>
    /\ cexit = [child |-> ChildOk(1), read_thread |-> ThreadPanicked,
                write_thread |-> "Broken pipe"]

\* The endpoint variant bridging thread t serves.
Variant(t) == IF t = 1 THEN cinput ELSE coutput

\* C13: a bridging thread is only ever created for an endpoint that is an
\* in-process stream; after a successful start the input (output) bridging
\* thread exists, and its JoinHandle is held, exactly when the input
\* (output) endpoint is an in-process stream; the ChildExit returned by
\* wait has read_thread (write_thread) present exactly in that case, and
\* its child field is the child's own wait outcome whatever the threads
\* returned.
ChildBridging ==
    /\ \A t \in Bridges : bridge[t] # "none" => Variant(t) = "Rust"
    /\ chpc \in {"running", "waited"} =>
         \A t \in Bridges :
            /\ bridge[t] # "none" <=> Variant(t) = "Rust"
            /\ handles[t] <=> Variant(t) = "Rust"
    /\ chpc = "waited" =>
         /\ \A t \in Bridges : Slot(t) # None <=> Variant(t) = "Rust"
         /\ \A t \in Bridges : Slot(t) = Observed(t)
         /\ cexit.child = cstatus

\* A child with an in-process input and a requested output pipe: wait
\* reports the input thread's success, no output thread, and the failure
\* of the child's own wait.
ChildBridgingWitness ==
    /\ chpc = "waited"
    /\ cinput = "Rust"
    /\ coutput = "PipeRequested"
    /\ cexit = [child |-> ChildErr(WaitErr), read_thread |-> Ok,
                write_thread |-> None]

\* C14: when start has failed on the creation of a pipe, that call has
\* spawned nothing: no bridging thread and no child for a ChildProcess, no
\* copy thread for a Lambda, no reader thread for a Tee.
SetupFailureSpawnsNothing ==
    /\ (chpc = "startfailed" /\ cstart = PipeErr) =>
         /\ \A t \in Bridges : bridge[t] = "none"
         /\ proc = "none"
    /\ lpc = "startfailed" =>
         /\ lres = NotFinished
         /\ lpos = 0
         /\ handlerArgs = <<>>
    /\ rpc = "startfailed" => Reader \notin Range(threads)

\* A bridging thread that was spawned and whose JoinHandle nobody holds:
\* it runs detached and its outcome cannot be observed.
Orphaned(t) == bridge[t] # "none" /\ ~handles[t]

\* C15: when start has failed on cmd.spawn(), it has returned that failure
\* and no bridging thread it created is orphaned.
SpawnFailureLeavesNoOrphan ==
    (chpc = "startfailed" /\ cstart = SpawnErr) =>
        /\ proc = "none"
        /\ \A t \in Bridges : ~Orphaned(t)

\* ------------------------------------------------------------------------
\* Properties of the Tee: result shape, barrier counter, retirement, panics
\* ------------------------------------------------------------------------

\* 1 when start registered a sink for its output endpoint, 0 for Null.
StartSink == IF startOut = "NotNull" THEN 1 ELSE 0

\* C12: the Vec returned by wait has 1 + k + e entries for k add_output
\* calls, e being 0 when start's output was Null and 1 otherwise: the
\* reader's outcome first, then the outcome of the i-th registered sink at
\* position 1 + i, the sink of start's output endpoint (registered last)
\* at the end.
TeeResultShape ==
    waitRes # <<>> =>
        /\ Len(waitRes) = 1 + addCalls + StartSink
        /\ waitRes[1] = threadRes[Reader]
        /\ waitRes[1] \in {Ok, ReadErr}
        /\ \A i \in 1..(addCalls + StartSink) :
             /\ waitRes[1 + i] = threadRes[i]
             /\ waitRes[1 + i] \in {Ok, WriteErr(i)}
             /\ Failed(i) <=> waitRes[1 + i] = WriteErr(i)

\* Two sinks from add_output and one from start's output; the read failed,
\* after the second registered sink and the sink of start's output had
\* failed: four outcomes, each in its place.
TeeResultShapeWitness ==
    /\ addCalls = 2
    /\ startOut = "NotNull"
    /\ waitRes = <<ReadErr, Ok, WriteErr(2), WriteErr(3)>>

\* The sinks that were handed the chunk of the round in progress.
HandedCurrent == {s \in SinkIds : chunks # <<>> /\ handed[s] = Len(chunks)}

\* The delivery thread holds a chunk and has not called notify() for it.
Pending(s) == spc[s] \in {"gotbuf", "writing", "notify"}

\* C18: every delivery thread has called notify() once for each chunk it
\* was handed, the chunk it is still writing excepted, whether the write
\* succeeded or failed; the counter is the number of sinks handed the
\* current chunk that have called notify() for it, so never more than the
\* sinks handed that chunk; the reader can leave the barrier only when the
\* counter equals the number of live sinks; the counter is 0 while the
\* reader waits for the buffer and fills it.
TeeBarrierCounter ==
    /\ \A s \in SinkIds :
         acks[s] = handed[s] - (IF Pending(s) THEN 1 ELSE 0)
    /\ notify <= Cardinality(HandedCurrent)
    /\ rpc \in {"send", "barrier"} =>
         notify = Cardinality({s \in HandedCurrent : ~Pending(s)})
    /\ (rpc = "barrier" /\ ENABLED ReaderBarrier) => notify = Len(channels)
    /\ rpc \in {"new", "lock", "fill", "filled"} => notify = 0

\* The second round, at the barrier: sink 1 failed its write and has
\* called notify(), sink 2 is still writing; the counter is 1.
TeeBarrierCounterWitness ==
    /\ rpc = "barrier"
    /\ Len(chunks) = 2
    /\ channels = <<1, 2>>
    /\ res[1] = WriteErr(1)
    /\ spc[1] = "check"
    /\ spc[2] = "writing"
    /\ acks[1] = 2
    /\ acks[2] = 1
    /\ notify = 1

\* The position of sink s in channels, 0 when its sender is not there.
IndexOf(s) ==
    IF s \in Range(channels)
      THEN CHOOSE i \in 1..Len(channels) : channels[i] = s
      ELSE 0

\* C19: a sink whose write failed in round r was handed the chunks of
\* rounds 1..r and is never handed another one; in round r + 1 the send to
\* it fails (its index is pushed on dead), and from the end of that round's
\* send loop on its sender is gone from channels; at the barrier the reader
\* waits only for sinks in channels that still hold the current chunk, so
\* the barrier opens as soon as those have called notify().
TeeSinkRetirement ==
    /\ \A s \in SinkIds :
         Failed(s) =>
            /\ handed[s] = Len(got[s]) + 1
            /\ spc[s] \in {"notify", "check", "exited"}
            /\ (Len(chunks) > handed[s] /\ rpc = "send"
                  /\ IndexOf(s) # 0 /\ IndexOf(s) < sendIdx) =>
                 /\ spc[s] = "exited"
                 /\ IndexOf(s) \in Range(dead)
            /\ (Len(chunks) > handed[s] /\ rpc # "send") =>
                 s \notin Range(channels)
    /\ rpc = "barrier" =>
         /\ (\A t \in Range(channels) : ~Pending(t)) <=> ENABLED ReaderBarrier
         /\ \A t \in Range(channels) : handed[t] = Len(chunks)

\* Sink 1 failed in the first round; the reader is at the barrier of the
\* third round with sink 2 alone in channels, and the barrier is open.
TeeSinkRetirementWitness ==
    /\ rpc = "barrier"
    /\ Len(chunks) = 3
    /\ res[1] = WriteErr(1)
    /\ handed[1] = 1
    /\ spc[1] = "exited"
    /\ channels = <<2>>
    /\ notify = 1
    /\ ENABLED ReaderBarrier

\* C20: when a delivery thread has panicked while writing a chunk, the
\* broadcast is not stalled: as long as wait has not returned, some thread
\* can take a step (the barrier of that round opens, the other sinks go on
\* to end-of-data, wait returns), and the Vec that wait returns holds
\* ThreadPanicked in that sink's slot.
TeePanicNoStall ==
    \A s \in SinkIds :
        threadRes[s] = Panicked =>
            /\ waitRes = <<>> => ENABLED NextTeePanic
            /\ waitRes # <<>> => waitRes[1 + s] = ThreadPanicked

\* ------------------------------------------------------------------------
\* Properties of the Tee: termination, read failure, consumed bytes, buffer
\* ------------------------------------------------------------------------

\* Tee::start has returned a RunningTee.
TeeStarted == rpc \notin {"new", "startfailed"}

\* No thread of the Tee is left: the reader and every delivery thread have
\* ended, nobody holds the buffer lock, and the barrier counter is at rest.
TeeAtRest ==
    /\ rpc = "done"
    /\ \A s \in SinkIds : Registered(s) => spc[s] = "exited"
    /\ ~lockW
    /\ lockR = {}
    /\ channels = <<>>

\* C21: under fair scheduling a started Tee whose input ends and whose sink
\* writes return comes to the point where wait has returned; when wait has
\* returned, no thread is left blocked on the barrier, on the buffer lock
\* or on a channel; and a reader that ended with success on a non-empty
\* buffer has taken the whole input and published it, the final partial
\* chunk included.
TeeTermination ==
    /\ [](waitRes # <<>> => TeeAtRest)
    /\ []((rpc = "done" /\ threadRes[Reader] = Ok /\ bufSize > 0) =>
            /\ pos = Len(stream)
            /\ Flatten(chunks) = stream)
    /\ (TeeStarted ~> waitRes # <<>>)

\* Three bytes through a buffer of two: the final chunk of one byte was
\* published, both sinks wrote both chunks, every thread returned success
\* and wait has returned.
TeeTerminationWitness ==
    /\ stream = <<1, 2, 3>>
    /\ chunks = <<<<1, 2>>, <<3>>>>
    /\ waitRes = <<Ok, Ok, Ok>>
    /\ got[1] = chunks
    /\ got[2] = chunks
    /\ TeeAtRest

\* A read of the input has failed.
ReadFailed == threadRes[Reader] = ReadErr

\* C22: when a read of the input has failed, the reader thread has ended
\* with that failure and takes no further step, so no further chunk is
\* published or handed out; the senders are dropped, so until wait has
\* returned some delivery thread or wait itself can go on; and when wait
\* has returned, its first entry is the read failure, every delivery
\* thread has ended, and the entry of every sink is success unless that
\* sink's own write failed.
TeeReadFailure ==
    ReadFailed =>
        /\ rpc = "done"
        /\ channels = <<>>
        /\ ~lockW
        /\ ~ENABLED ReaderStep
        /\ \A s \in SinkIds : handed[s] <= Len(chunks)
        /\ waitRes = <<>> => ENABLED TeeNext
        /\ waitRes # <<>> =>
             /\ waitRes[1] = ReadErr
             /\ \A s \in SinkIds :
                  Registered(s) =>
                     /\ spc[s] = "exited"
                     /\ waitRes[1 + s] = IF Failed(s) THEN WriteErr(s) ELSE Ok

\* The read failed after one chunk had gone out; sink 2 had failed its
\* write of that chunk, sink 1 had not: wait returned the read failure,
\* success for sink 1 and sink 2's own failure.
TeeReadFailureWitness ==
    /\ Len(chunks) = 1
    /\ got[1] = chunks
    /\ waitRes = <<ReadErr, Ok, WriteErr(2)>>

\* C25: once the reader thread has ended, every sink whose writes all
\* succeeded and whose thread has ended has written every byte the reader
\* took from the input, in order.
TeeDeliversConsumed ==
    rpc = "done" =>
        \A s \in SinkIds :
            (LiveSink(s) /\ spc[s] = "exited") =>
                Flatten(got[s]) = SubSeq(stream, 1, pos)

\* C26: whenever the reader is about to fill the buffer, the buffer has
\* the length given to Tee::new.
TeeBufferKeepsSize ==
    rpc \in {"lock", "fill"} => Len(buffer) = bufSize

\* C23: while wait is blocked on the copy thread of a Lambda started with
\* pipe-requested input, and unless the caller holds the write end it took,
\* no write end of the input pipe is open, so a copy thread that is reading
\* the pipe gets an answer.
WaitClosesUntakenInput ==
    (lwaiting /\ lpc # "waited" /\ linput = "PipeRequested"
       /\ inTx # "caller") =>
        /\ ~InputWriteEndOpen
        /\ lpc = "read" => ENABLED LambdaRead

\* The Lambda writes to a pipe or to a descriptor it owns, which a
\* downstream stage reads.
HasDownstream == loutput \in {"Fd", "PipeRequested"}

====
